---- MODULE Spec2Model ----
(***************************************************************************)
(* A model of aitextgen.generate (src/aitextgen/aitextgen.py): the prompt  *)
(* check, seeding, the sampling loop, the schema post-processing of the    *)
(* sampled token sequences and the plain-text clean-up with its retry.     *)
(*                                                                         *)
(* Python's None is modelled as the empty set and a given value v as {v},  *)
(* so that None, 0 and "" stay distinct where the code treats them alike   *)
(* ("if seed:") or differently ("prepend_bos is None").                    *)
(* Texts and delimiter strings are sequences of one-character strings.     *)
(***************************************************************************)
EXTENDS Integers, Sequences, FiniteSets, TLC

\* ---------------------------------------------------------------- bounds
MaxOutLen == 3        \* most tokens in a sampled batch of a schema call
MaxPlainLen == 2      \* most tokens in a sampled batch of a non-schema call
MaxN == 2             \* largest n (num_return_sequences)
MaxDelims == 2        \* most delimiters in config.schema_tokens
MaxCalls == 3         \* the sampling-call counters saturate here
ModelMaxLength == 3   \* model_max_length(self.model.config)

\* ------------------------------------------------------- Python's values
None == {}
Some(v) == {v}
Val(x) == CHOOSE v \in x : TRUE
\* Python truthiness of an optional integer: None and 0 are falsy.
Truthy(x) == x # None /\ Val(x) # 0
\* Python truthiness of an optional list: None and [] are falsy.
TruthyList(x) == x # None /\ Val(x) # << >>

Min(a, b) == IF a <= b THEN a ELSE b
Max(a, b) == IF a >= b THEN a ELSE b

\* A Python slice bound: negative counts from the end, then clamped.
PyBound(len, i) == IF i < 0 THEN Max(len + i, 0) ELSE Min(i, len)
\* s[lo:hi] with 0-based lo, hi (either may be negative).
PySlice(s, lo, hi) == SubSeq(s, PyBound(Len(s), lo) + 1, PyBound(Len(s), hi))
\* s[lo:None]
PySliceFrom(s, lo) == SubSeq(s, PyBound(Len(s), lo) + 1, Len(s))

RECURSIVE SeqsUpTo(_, _)
SeqsUpTo(S, k) ==
    IF k = 0 THEN {<< >>}
    ELSE LET shorter == SeqsUpTo(S, k - 1)
         IN  shorter \cup {Append(s, x) : s \in {t \in shorter : Len(t) = k - 1}, x \in S}

\* ------------------------------------------------------------ tokenizer
\* Token 0 is the special end-of-text token; 1 "Q", 2 ":", 3 "A:", 4 " ".
EosToken == 0
SchemaVocab == {0, 1, 2, 3}
PlainVocab == {0, 3, 4}

Piece(t) ==
    CASE t = 1 -> <<"Q">>
      [] t = 2 -> <<":">>
      [] t = 3 -> <<"A", ":">>
      [] t = 4 -> <<" ">>
      [] OTHER -> <<"<", "|", "e", "n", "d", "o", "f", "t", "e", "x", "t", "|", ">">>

RECURSIVE Decode(_, _)
Decode(toks, skip_special_tokens) ==
    IF toks = << >> THEN << >>
    ELSE (IF Head(toks) = EosToken /\ skip_special_tokens THEN << >> ELSE Piece(Head(toks)))
         \o Decode(Tail(toks), skip_special_tokens)

\* The delimiter strings a model can be configured with.
DelimQColon == <<"Q", ":">>
DelimAColon == <<"A", ":">>
DelimQ == <<"Q">>
Delims == {DelimQColon, DelimAColon, DelimQ}

\* self.tokenizer(text=schema_tokens)["input_ids"], one delimiter at a time
Encode(d) ==
    CASE d = DelimQColon -> <<1, 2>>
      [] d = DelimAColon -> <<3>>
      [] OTHER -> <<1>>

\* -------------------------------------------------- schema post-processing
\* First 0-based index where small_list occurs in large_list, else -1.
find_index_of_subset(large_list, small_list) ==
    LET n == Len(small_list)
        hits == {i \in 0 .. (Len(large_list) - n) :
                    SubSeq(large_list, i + 1, i + n) = small_list}
    IN  IF n = 0 \/ hits = {} THEN -1
        ELSE CHOOSE i \in hits : \A j \in hits : i <= j

\* [(schema_tokens[i], find_index_of_subset(output, token_enc)) for i, ...]
RawIndices(schema_tokens, output) ==
    [i \in 1 .. Len(schema_tokens) |->
        [tok |-> schema_tokens[i],
         pos |-> find_index_of_subset(output, Encode(schema_tokens[i]))]]

\* list.sort(key=lambda x: x[1]): ascending, stable.
InsertByPos(sorted, x) ==
    LET k == Cardinality({j \in 1 .. Len(sorted) : sorted[j].pos <= x.pos})
    IN  SubSeq(sorted, 1, k) \o <<x>> \o SubSeq(sorted, k + 1, Len(sorted))

RECURSIVE SortByPos(_)
SortByPos(pairs) ==
    IF pairs = << >> THEN << >>
    ELSE InsertByPos(SortByPos(SubSeq(pairs, 1, Len(pairs) - 1)), pairs[Len(pairs)])

schema_token_indices(schema_tokens, output) ==
    SortByPos(RawIndices(schema_tokens, output))

\* re.compile(r"[\W_]+").sub("", s): keep the alphanumeric characters.
AlphaNum == {"Q", "A"}
IsAlphaNum(c) == c \in AlphaNum
StripNonAlphaNum(s) == SelectSeq(s, IsAlphaNum)

FieldKey(tok, normalize_key) == IF normalize_key THEN StripNonAlphaNum(tok) ELSE tok

\* FieldSpan with the end index taken as the next start itself.
FieldSpan_EndAtNextStart(indices, i, output) ==
    IF i + 1 <= Len(indices)
    THEN PySlice(output, indices[i].pos, indices[i + 1].pos)
    ELSE PySliceFrom(output, indices[i].pos)

\* output[start_index:end_index] for the pair at (1-based) place i
FieldSpan(indices, i, output) ==
    IF i + 1 <= Len(indices)
    THEN PySlice(output, indices[i].pos, indices[i + 1].pos - 1)
    ELSE PySliceFrom(output, indices[i].pos)

\* FieldText without the test for the not-found position.
FieldText_NoSentinelTest(indices, i, output) ==
    Decode(FieldSpan(indices, i, output), TRUE)

FieldText(indices, i, output) ==
    IF indices[i].pos = -1 THEN << >>
    ELSE Decode(FieldSpan(indices, i, output), TRUE)

\* gen_text_dict[key] = value
DictSet(d, key, value) ==
    [k \in (DOMAIN d) \cup {key} |-> IF k = key THEN value ELSE d[k]]

EmptyDict == [k \in {} |-> << >>]

\* the loop "for i, token_tuple in enumerate(schema_token_indices)"
RECURSIVE FillDict(_, _, _, _)
FillDict(indices, i, output, normalize_key) ==
    IF i = 0 THEN EmptyDict
    ELSE DictSet(FillDict(indices, i - 1, output, normalize_key),
                 FieldKey(indices[i].tok, normalize_key),
                 FieldText(indices, i, output))

gen_text_dict(schema_tokens, output, normalize_key) ==
    LET indices == schema_token_indices(schema_tokens, output)
    IN  FillDict(indices, Len(indices), output, normalize_key)

\* "remove fields not in schema_return": the value appended to gen_texts,
\* or the exception the statements raise.  keys is a live view of the
\* original dict, so after the one-field collapse pop is looked up on a str,
\* and popping from the dict while iterating its keys raises at the next step.
ApplySchemaReturn(d, schema_return) ==
    IF ~TruthyList(schema_return) THEN [kind |-> "dict", dict |-> d]
    ELSE LET sr == Val(schema_return)
             listed == {sr[j] : j \in 1 .. Len(sr)}
             extra == (DOMAIN d) \ listed
         IN  IF Len(sr) = 1
             THEN IF sr[1] \notin DOMAIN d THEN [kind |-> "raise", exc |-> "KeyError"]
                  ELSE IF extra # {} THEN [kind |-> "raise", exc |-> "AttributeError"]
                  ELSE [kind |-> "str", text |-> d[sr[1]]]
             ELSE IF extra # {} THEN [kind |-> "raise", exc |-> "RuntimeError"]
                  ELSE [kind |-> "dict", dict |-> d]

\* one pass of "for output in outputs"
SchemaRecord(schema_tokens, schema_return, output, normalize_key) ==
    ApplySchemaReturn(gen_text_dict(schema_tokens, output, normalize_key), schema_return)

SchemaRecords(schema_tokens, schema_return, outs, normalize_key) ==
    [i \in 1 .. Len(outs) |->
        SchemaRecord(schema_tokens, schema_return, outs[i], normalize_key)]

\* ------------------------------------------------------ plain clean-up
IsSpace(c) == c = " "

\* re.sub(r"^\s+", "", text)
RECURSIVE LStrip(_)
LStrip(text) ==
    IF text # << >> /\ IsSpace(Head(text)) THEN LStrip(Tail(text)) ELSE text

\* the test of the filter() that applies
Keeps(text, min_length) ==
    IF Truthy(min_length) THEN Len(text) > Val(min_length) ELSE Len(text) > 0

RECURSIVE FilterTexts(_, _)
FilterTexts(texts, min_length) ==
    IF texts = << >> THEN << >>
    ELSE (IF Keeps(Head(texts), min_length) THEN <<Head(texts)>> ELSE << >>)
         \o FilterTexts(Tail(texts), min_length)

BatchDecode(outs, skip_special_tokens) ==
    [i \in 1 .. Len(outs) |-> Decode(outs[i], skip_special_tokens)]

\* gen_texts as it stands at "if len(gen_texts) == 0"
CleanTexts(outs, a) ==
    LET decoded == BatchDecode(outs, a.skip_special_tokens)
        stripped == IF a.lstrip THEN [i \in 1 .. Len(decoded) |-> LStrip(decoded[i])]
                    ELSE decoded
    IN  IF a.nonempty_output THEN FilterTexts(stripped, a.min_length) ELSE stripped

\* ------------------------------------------------------------- the call
VARIABLES
    args,        \* the arguments of the generate call
    config,      \* self.model.config: schema_tokens, schema_return, line_by_line
    pc,          \* "start", "loop" (top of while True), "sampled", "done"
    rng,         \* the global random state: "fresh" or "seeded"
    input_len,   \* number of tokens of input_ids (0 for None)
    max_length,  \* the max_length handed to model.generate
    calls,       \* model.generate calls made so far (saturates at MaxCalls)
    empties,     \* batches found empty after clean-up (saturates at MaxCalls)
    outputs,     \* the batch model.generate returned last
    gen_texts,   \* gen_texts as it stands when the call ends
    outcome      \* how the call ended: returned, printed or raised

\* train and cross_train
VARIABLES
    env,           \* the machine: cuda available, units installed, Windows or not
    checkpoint,    \* whether pytorch_model.bin is in output_dir
    train_args,    \* the arguments of the train call
    train_pc,      \* "idle", "start", "fit" (inside trainer.fit), "done"
    is_gpu_used,   \* train's local of that name
    train_params,  \* the keyword arguments handed to pl.Trainer
    steps,         \* the step counter of the progress callback
    log,           \* warnings, saves and samples of the train calls, in order
    trained,       \* the train calls made so far, in order, each with its
                   \* dataset, rate and budget and whether it found a checkpoint
    cross_args,    \* the arguments of the cross_train call
    cross_pc,      \* "idle", "start", "loop", "training", "done"
    learning_rate, \* cross_train's list of that name, once resolved
    num_steps,     \* cross_train's list of that name, once resolved
    run            \* the index i of cross_train's loop

\* generate_to_file
VARIABLES
    file_args,     \* the arguments of the generate_to_file call
    file_pc,       \* "idle", "start", "loop", "generating", "done"
    f,             \* None until the file is opened, then the entries written
    batch          \* batches generated so far

genVars == <<args, config, pc, rng, input_len, max_length, calls, empties, outputs,
             gen_texts, outcome>>
trainVars == <<env, checkpoint, train_args, train_pc, is_gpu_used, train_params,
               steps, log, trained>>
crossVars == <<cross_args, cross_pc, learning_rate, num_steps, run>>
fileVars == <<file_args, file_pc, f, batch>>

vars == <<genVars, trainVars, crossVars, fileVars>>

DefaultMaxLength == 256
\* The seeds tried: none, 0 (falsy under "if seed:") and a non-zero seed.
GivenSeed == Some(5)

DefaultArgs ==
    [n |-> 1, promptLen |-> 0, prepend_bos |-> None, min_length |-> None,
     max_length |-> DefaultMaxLength, return_as_list |-> FALSE, seed |-> None,
     schema |-> FALSE, normalize_key |-> TRUE, lstrip |-> TRUE,
     nonempty_output |-> TRUE, skip_special_tokens |-> TRUE]

DefaultConfig == [schema_tokens |-> None, schema_return |-> None, line_by_line |-> None]

\* Lists of distinct elements of S, of length 1 .. k.
DistinctLists(S, k) ==
    {l \in SeqsUpTo(S, k) : l # << >> /\ \A i, j \in 1 .. Len(l) : i # j => l[i] # l[j]}

\* The allow-lists tried with a normalization setting: None, the key of "Q:"
\* alone, and the keys of "Q:" and "A:".
SchemaReturns(normalize_key) ==
    {None, Some(<<FieldKey(DelimQColon, normalize_key)>>),
     Some(<<FieldKey(DelimQColon, normalize_key), FieldKey(DelimAColon, normalize_key)>>)}

\* Calls that stress the prompt check and the seeding.
PromptCalls ==
    {<<[DefaultArgs EXCEPT !.promptLen = p, !.prepend_bos = b, !.seed = s,
                           !.max_length = m],
       [DefaultConfig EXCEPT !.line_by_line = l]>> :
        p \in 0 .. ModelMaxLength + 1, b \in {None, Some(TRUE), Some(FALSE)},
        s \in {None, Some(0), GivenSeed}, m \in {1, DefaultMaxLength},
        l \in {None, Some(TRUE)}}

\* Non-schema calls for one text, over the clean-up options.  The largest
\* min_length is the length of the longest text the vocabulary can decode to,
\* which no text exceeds.
PlainCalls ==
    {<<[DefaultArgs EXCEPT !.min_length = ml, !.lstrip = ls, !.nonempty_output = ne,
                           !.return_as_list = r, !.seed = s],
       DefaultConfig>> :
        ml \in {None} \cup {Some(k) : k \in 0 .. MaxPlainLen} \cup {Some(2 * MaxPlainLen)},
        ls \in BOOLEAN,
        ne \in BOOLEAN, r \in BOOLEAN, s \in {None, GivenSeed}}

\* Non-schema calls for several texts.
PlainBatchCalls ==
    {<<[DefaultArgs EXCEPT !.n = k, !.min_length = ml, !.lstrip = ls,
                           !.return_as_list = r],
       DefaultConfig>> :
        k \in 2 .. MaxN, ml \in {None, Some(1)}, ls \in BOOLEAN, r \in BOOLEAN}

\* Schema calls for one text, over the schema configurations.
SchemaCalls ==
    {<<[DefaultArgs EXCEPT !.schema = TRUE, !.normalize_key = nk, !.return_as_list = r],
       [DefaultConfig EXCEPT !.schema_tokens = st, !.schema_return = sr]>> :
        nk \in BOOLEAN, r \in BOOLEAN,
        st \in {None} \cup {Some(l) : l \in DistinctLists(Delims, MaxDelims)},
        sr \in UNION {SchemaReturns(b) : b \in BOOLEAN}}

\* Schema calls with and without a seed, for one text or several.
SeededSchemaCalls ==
    {<<[DefaultArgs EXCEPT !.schema = TRUE, !.n = k, !.return_as_list = r, !.seed = s],
       [DefaultConfig EXCEPT !.schema_tokens = st, !.schema_return = sr]>> :
        k \in 1 .. MaxN, r \in BOOLEAN, s \in {None, GivenSeed},
        st \in {None, Some(<<DelimQColon, DelimAColon>>)},
        sr \in {None, Some(<<DelimQ>>)}}

Calls == PromptCalls \cup PlainCalls \cup PlainBatchCalls \cup SchemaCalls
            \cup SeededSchemaCalls

\* The batches model.generate can return for a call: n token sequences, the
\* bound on their length shared among them.
OutLen(a) == (IF a.schema THEN MaxOutLen ELSE MaxPlainLen) \div a.n
Batches(a) ==
    LET seqs == SeqsUpTo(IF a.schema THEN SchemaVocab ELSE PlainVocab, OutLen(a))
    IN  [1 .. a.n -> seqs]

NoOutcome == [kind |-> "none"]

\* ------------------------------------------- train and cross_train: inputs
MaxUnits == 2
MaxSteps == 3
MaxDatasets == 3

DefaultSaveEvery == 1000
DefaultGenerateEvery == 1000
DefaultNumSteps == 5000

\* A learning rate is a float; the ones met here are a decimal fraction
\* divided by a power of two, kept exactly as numerator and denominator.
Rat(n, d) == [num |-> n, den |-> d]
RatDiv(r, k) == [num |-> r.num, den |-> r.den * k]
RatEq(a, b) == a.num * b.den = b.num * a.den

RECURSIVE Pow2(_)
Pow2(x) == IF x = 0 THEN 1 ELSE 2 * Pow2(x - 1)

\* A TokenDataset, as far as train reads it.
Dataset(i) == [id |-> i, line_by_line |-> i % 2 = 1]

\* An argument that is either a list or a single number.
Scalar(x) == [isList |-> FALSE, value |-> x]
List(l) == [isList |-> TRUE, items |-> l]

DefaultEnv == [units |-> 0, windows |-> FALSE]
Envs == [units : 0 .. MaxUnits, windows : BOOLEAN]

DefaultTrainArgs ==
    [train_data |-> Dataset(1), n_gpu |-> -1, tpu_cores |-> 0, seed |-> None,
     learning_rate |-> Rat(1, 1000), num_steps |-> DefaultNumSteps,
     save_every |-> DefaultSaveEvery, generate_every |-> DefaultGenerateEvery]

DefaultCrossArgs ==
    [inputs |-> << >>, learning_rate |-> Scalar(Rat(1, 10000)),
     num_steps |-> Scalar(4000), kwargs |-> DefaultTrainArgs]

NoParams == [gpus |-> 0, max_steps |-> 0, tpu_cores |-> None, benchmark |-> None,
             distributed_backend |-> None]

\* train calls over the devices: the machine, n_gpu and tpu_cores.
DeviceCalls ==
    {<<e, FALSE, [DefaultTrainArgs EXCEPT !.n_gpu = g, !.tpu_cores = t,
                                          !.num_steps = 1, !.save_every = 0,
                                          !.generate_every = 0]>> :
        e \in Envs, g \in -1 .. MaxUnits, t \in {0, 8}}

\* train calls over the schedule: budget, cadences, seed, old checkpoint.
ScheduleCalls ==
    {<<DefaultEnv, ck, [DefaultTrainArgs EXCEPT !.num_steps = ns, !.save_every = se,
                                                !.generate_every = ge, !.seed = s]>> :
        ck \in BOOLEAN, ns \in 0 .. MaxSteps, se \in 0 .. MaxSteps, ge \in {0, 2},
        s \in {None, GivenSeed}}

\* train calls with the default cadences and a budget of one save period.
PeriodCalls ==
    {<<DefaultEnv, ck, [DefaultTrainArgs EXCEPT !.num_steps = DefaultSaveEvery]>> :
        ck \in BOOLEAN}

TrainCalls == DeviceCalls \cup ScheduleCalls \cup PeriodCalls

\* The lists of datasets tried: the first k datasets, in either order.
Reverse(l) == [i \in 1 .. Len(l) |-> l[Len(l) + 1 - i]]
DatasetLists ==
    LET upTo == {[i \in 1 .. k |-> Dataset(i)] : k \in 0 .. MaxDatasets}
    IN  upTo \cup {Reverse(l) : l \in upTo}

\* cross_train calls: each of learning_rate and num_steps a single number or
\* a list of any length up to one more than the datasets tried.  The entries
\* of a list differ from place to place and follow no halving.
RateList(n) == [i \in 1 .. n |-> Rat(i, 1000)]
StepList(n) == [i \in 1 .. n |-> 1 + (i % MaxSteps)]
CrossCalls ==
    {<<ck, [DefaultCrossArgs EXCEPT !.inputs = ds, !.learning_rate = lr,
                                    !.num_steps = ns]>> :
        ck \in BOOLEAN, ds \in DatasetLists,
        lr \in {Scalar(Rat(1, 10000))}
                 \cup {List(RateList(n)) : n \in 0 .. MaxDatasets + 1},
        ns \in {Scalar(v) : v \in 0 .. MaxSteps}
                 \cup {List(StepList(n)) : n \in 0 .. MaxDatasets + 1}}

DefaultFileArgs ==
    [n |-> 20, batch_size |-> 1, destination_path |-> None, seed |-> None,
     kwargs |-> DefaultArgs]

IdleFile ==
    /\ file_args = DefaultFileArgs
    /\ file_pc = "idle"
    /\ f = None
    /\ batch = 0

IdleTrain ==
    /\ env = DefaultEnv
    /\ checkpoint = FALSE
    /\ train_args = DefaultTrainArgs
    /\ train_pc = "idle"
    /\ is_gpu_used = FALSE
    /\ train_params = NoParams
    /\ steps = 0
    /\ log = << >>
    /\ trained = << >>

IdleCross ==
    /\ cross_args = DefaultCrossArgs
    /\ cross_pc = "idle"
    /\ learning_rate = << >>
    /\ num_steps = << >>
    /\ run = 0

IdleGenerate ==
    /\ args = DefaultArgs
    /\ pc = "idle"
    /\ rng = "fresh"
    /\ input_len = 0
    /\ max_length = 0
    /\ calls = 0
    /\ empties = 0
    /\ outputs = << >>
    /\ gen_texts = << >>
    /\ outcome = NoOutcome

\* -------------------------------------------------------- generate: calls
Init ==
    /\ IdleTrain /\ IdleCross /\ IdleFile
    /\ \E c \in Calls : args = c[1] /\ config = c[2]
    /\ pc = "start"
    /\ rng = "fresh"
    /\ input_len = 0
    /\ max_length = 0
    /\ calls = 0
    /\ empties = 0
    /\ outputs = << >>
    /\ gen_texts = << >>
    /\ outcome = NoOutcome

\* set_seed(seed) / reset_seed() under "if seed:"
SetSeed(seed, state) == IF Truthy(seed) THEN "seeded" ELSE state
ResetSeed(seed, state) == IF Truthy(seed) THEN "fresh" ELSE state

\* PromptTooLarge with a prompt exactly as long as the context let through.
PromptTooLarge_AllowEqual(a) == a.promptLen > 0 /\ ~(a.promptLen <= ModelMaxLength)

\* "assert prompt_num_tokens < model_max_length(...)" under "if prompt:"
PromptTooLarge(a) == a.promptLen > 0 /\ ~(a.promptLen < ModelMaxLength)

\* prepend_bos after "if prepend_bos is None: prepend_bos = getattr(...)"
PrependBos(a, cfg) ==
    LET resolved == IF a.prepend_bos = None THEN cfg.line_by_line ELSE a.prepend_bos
    IN  resolved # None /\ Val(resolved)

InputLen(a, cfg) == a.promptLen + (IF PrependBos(a, cfg) THEN 1 ELSE 0)

\* Everything before "while True".
Prepare ==
    /\ pc = "start"
    /\ IF PromptTooLarge(args)
       THEN /\ pc' = "done"
            /\ outcome' = [kind |-> "raised", exc |-> "AssertionError"]
            /\ UNCHANGED <<rng, input_len, max_length>>
       ELSE /\ pc' = "loop"
            /\ input_len' = InputLen(args, config)
            /\ rng' = SetSeed(args.seed, rng)
            /\ max_length' = Min(ModelMaxLength, args.max_length)
            /\ UNCHANGED outcome
    /\ UNCHANGED <<args, config, calls, empties, outputs, gen_texts>>
    /\ UNCHANGED <<trainVars, crossVars, fileVars>>

Bump(k) == IF k < MaxCalls THEN k + 1 ELSE k

\* outputs = self.model.generate(...)
Sample ==
    /\ pc = "loop"
    /\ outputs' \in Batches(args)
    /\ calls' = Bump(calls)
    /\ pc' = "sampled"
    /\ UNCHANGED <<args, config, rng, input_len, max_length, empties, gen_texts, outcome>>
    /\ UNCHANGED <<trainVars, crossVars, fileVars>>

\* The first exception the schema branch raises on this batch, if any.
SchemaFailure(a, cfg, outs) ==
    IF cfg.schema_tokens = None THEN Some("AttributeError")
    ELSE LET recs == SchemaRecords(Val(cfg.schema_tokens), cfg.schema_return, outs,
                                   a.normalize_key)
             bad == {i \in 1 .. Len(recs) : recs[i].kind = "raise"}
         IN  IF bad = {} THEN None
             ELSE Some(recs[CHOOSE i \in bad : \A j \in bad : i <= j].exc)

\* The "if schema:" branch of the loop body, to its print or return.
SchemaPostprocess ==
    /\ pc = "sampled"
    /\ args.schema
    /\ pc' = "done"
    /\ LET failure == SchemaFailure(args, config, outputs)
       IN  IF failure # None
           THEN /\ outcome' = [kind |-> "raised", exc |-> Val(failure)]
                /\ UNCHANGED <<rng, gen_texts>>
           ELSE LET recs == SchemaRecords(Val(config.schema_tokens), config.schema_return,
                                          outputs, args.normalize_key)
                IN  /\ gen_texts' = recs
                    /\ rng' = ResetSeed(args.seed, rng)
                    /\ outcome' =
                         IF ~args.return_as_list THEN [kind |-> "printed", value |-> recs]
                         ELSE IF args.n > 1 THEN [kind |-> "returned", value |-> recs]
                         ELSE [kind |-> "returned", value |-> recs[1]]
    /\ UNCHANGED <<args, config, input_len, max_length, calls, empties, outputs>>
    /\ UNCHANGED <<trainVars, crossVars, fileVars>>

\* IsEmptyBatch retrying also on a batch with a single text left.
IsEmptyBatch_AtMostOne(texts) == Len(texts) <= 1

\* IsEmptyBatch with the retry left out.
IsEmptyBatch_NoRetry(texts) == FALSE

\* "if len(gen_texts) == 0: continue"
IsEmptyBatch(texts) == Len(texts) = 0

\* The "else:" branch of the loop body: continue, print or return.  What is
\* printed is recorded as the list of texts printed (all of them for n > 1,
\* the first otherwise); the bold escape put around the prompt is left out.
PlainPostprocess ==
    /\ pc = "sampled"
    /\ ~args.schema
    /\ LET texts == CleanTexts(outputs, args)
       IN  IF IsEmptyBatch(texts)
           THEN /\ pc' = "loop"
                /\ empties' = Bump(empties)
                /\ outputs' = << >>
                /\ UNCHANGED <<rng, gen_texts, outcome>>
           ELSE /\ pc' = "done"
                /\ gen_texts' = texts
                /\ rng' = ResetSeed(args.seed, rng)
                /\ outcome' =
                     IF args.return_as_list THEN [kind |-> "returned", value |-> texts]
                     ELSE IF args.n > 1 THEN [kind |-> "printed", value |-> texts]
                     ELSE [kind |-> "printed", value |-> SubSeq(texts, 1, Min(1, Len(texts)))]
                /\ UNCHANGED <<empties, outputs>>
    /\ UNCHANGED <<args, config, input_len, max_length, calls>>
    /\ UNCHANGED <<trainVars, crossVars, fileVars>>

Next == Prepare \/ Sample \/ SchemaPostprocess \/ PlainPostprocess

Spec == Init /\ [][Next]_vars

\* =================================================================== train
\* "is_gpu_used = torch.cuda.is_available() and n_gpu != 0"
IsGpuUsed(e, n_gpu) == e.units > 0 /\ n_gpu # 0

\* "Windows does not support multi-GPU training."
ForcedSingle(e, n_gpu) ==
    e.windows /\ IsGpuUsed(e, n_gpu) /\ (IF ~IsGpuUsed(e, n_gpu) THEN 0 ELSE n_gpu) # 1

\* n_gpu after "if not is_gpu_used: n_gpu = 0" and the Windows rule.
NGpu(e, n_gpu) ==
    IF ForcedSingle(e, n_gpu) THEN 1
    ELSE IF ~IsGpuUsed(e, n_gpu) THEN 0 ELSE n_gpu

\* "if n_gpu > 1:"
Distributed(n_gpu) == n_gpu > 1

\* The keyword arguments of pl.Trainer the devices and the budget decide.
TrainParams(e, a) ==
    LET n == IF a.tpu_cores > 0 THEN 0 ELSE NGpu(e, a.n_gpu)
    IN  [gpus |-> n,
         max_steps |-> a.num_steps,
         tpu_cores |-> IF a.tpu_cores > 0 THEN Some(a.tpu_cores) ELSE None,
         benchmark |-> IF IsGpuUsed(e, a.n_gpu) THEN Some(TRUE) ELSE None,
         distributed_backend |-> IF Distributed(n) THEN Some("ddp") ELSE None]

Warning(what) == [ev |-> "warning", what |-> what]
Save(by, step) == [ev |-> "save", by |-> by, step |-> step]
SampleTexts(step) == [ev |-> "sample", step |-> step]

\* 'if os.path.exists(output_dir) and "pytorch_model.bin" in os.listdir(...)'
OverwriteWarning(exists) == IF exists THEN <<Warning("overwrite")>> ELSE << >>

WindowsWarning(e, n_gpu) ==
    IF ForcedSingle(e, n_gpu) THEN <<Warning("windows")>> ELSE << >>

\* train up to the construction of the trainer.
TrainConfigure ==
    /\ train_pc = "start"
    /\ train_pc' = "fit"
    /\ trained' = Append(trained, [train_data |-> train_args.train_data,
                                   learning_rate |-> train_args.learning_rate,
                                   num_steps |-> train_args.num_steps,
                                   found_checkpoint |-> checkpoint])
    /\ is_gpu_used' = IsGpuUsed(env, train_args.n_gpu)
    /\ config' = [config EXCEPT !.line_by_line = Some(train_args.train_data.line_by_line)]
    /\ rng' = SetSeed(train_args.seed, rng)
    /\ log' = log \o OverwriteWarning(checkpoint) \o WindowsWarning(env, train_args.n_gpu)
    /\ train_params' = TrainParams(env, train_args)
    /\ steps' = 0
    /\ UNCHANGED <<env, checkpoint, train_args>>
    /\ UNCHANGED <<args, pc, input_len, max_length, calls, empties, outputs, gen_texts,
                   outcome>>
    /\ UNCHANGED <<crossVars, fileVars>>

\* The progress callback is due at this step under this cadence.
Due(every, step) == every > 0 /\ step % every = 0

\* One optimization step of trainer.fit and the progress callback after it.
TrainerStep ==
    /\ train_pc = "fit"
    /\ steps < train_params.max_steps
    /\ steps' = steps + 1
    /\ LET saved == Due(train_args.save_every, steps + 1)
           sampled == Due(train_args.generate_every, steps + 1)
       IN  /\ checkpoint' = (checkpoint \/ saved)
           /\ log' = log \o (IF saved THEN <<Save("callback", steps + 1)>> ELSE << >>)
                         \o (IF sampled THEN <<SampleTexts(steps + 1)>> ELSE << >>)
    /\ UNCHANGED <<env, train_args, train_pc, is_gpu_used, train_params, trained>>
    /\ UNCHANGED <<genVars, crossVars, fileVars>>

\* FinalSave with the save after trainer.fit left out.
FinalSave_None(step) == << >>

\* "self.model.save_pretrained(output_dir)" after trainer.fit
FinalSave(step) == <<Save("train", step)>>

\* train from the return of trainer.fit to its own return.
TrainFinish ==
    /\ train_pc = "fit"
    /\ steps >= train_params.max_steps
    /\ train_pc' = "done"
    /\ log' = log \o FinalSave(steps)
    /\ checkpoint' = (checkpoint \/ FinalSave(steps) # << >>)
    /\ rng' = ResetSeed(train_args.seed, rng)
    /\ UNCHANGED <<env, train_args, is_gpu_used, train_params, steps, trained>>
    /\ UNCHANGED <<args, config, pc, input_len, max_length, calls, empties, outputs,
                   gen_texts, outcome>>
    /\ UNCHANGED <<crossVars, fileVars>>

\* ============================================================= cross_train
\* ResolveRates with every run at the first run's rate.
ResolveRates_NoDecay(lr, k) ==
    IF lr.isList THEN lr.items
    ELSE [x \in 1 .. k |-> lr.value]

\* "[learning_rate / (2 ** x) for x in range(len(datasets))]" unless a list
ResolveRates(lr, k) ==
    IF lr.isList THEN lr.items
    ELSE [x \in 1 .. k |-> RatDiv(lr.value, Pow2(x - 1))]

\* "[int(num_steps / (2 ** x)) for x in range(len(datasets))]" unless a list;
\* the budgets are non-negative, where int() of the quotient is its floor.
ResolveSteps(ns, k) ==
    IF ns.isList THEN ns.items
    ELSE [x \in 1 .. k |-> ns.value \div Pow2(x - 1)]

\* LengthsAgree letting lists with entries to spare through.
LengthsAgree_AtLeast(k, rates, budgets) == k <= Len(rates) /\ k <= Len(budgets)

\* "assert len(datasets) == len(learning_rate) == len(num_steps)"
LengthsAgree(k, rates, budgets) == k = Len(rates) /\ Len(rates) = Len(budgets)

\* cross_train up to its loop.
CrossResolve ==
    /\ cross_pc = "start"
    /\ LET k == Len(cross_args.inputs)
           rates == ResolveRates(cross_args.learning_rate, k)
           budgets == ResolveSteps(cross_args.num_steps, k)
       IN  /\ learning_rate' = rates
           /\ num_steps' = budgets
           /\ IF LengthsAgree(k, rates, budgets)
              THEN /\ cross_pc' = IF k = 0 THEN "done" ELSE "loop"
                   /\ UNCHANGED outcome
              ELSE /\ cross_pc' = "done"
                   /\ outcome' = [kind |-> "raised", exc |-> "AssertionError"]
    /\ run' = 0
    /\ UNCHANGED cross_args
    /\ UNCHANGED <<args, config, pc, rng, input_len, max_length, calls, empties, outputs,
                   gen_texts>>
    /\ UNCHANGED <<trainVars, fileVars>>

\* "self.train(dataset, learning_rate=learning_rate[i], num_steps=num_steps[i], ...)"
CrossCallTrain ==
    /\ cross_pc = "loop"
    /\ cross_pc' = "training"
    /\ train_pc' = "start"
    /\ train_args' = [cross_args.kwargs EXCEPT
                         !.train_data = cross_args.inputs[run + 1],
                         !.learning_rate = learning_rate[run + 1],
                         !.num_steps = num_steps[run + 1]]
    /\ UNCHANGED <<env, checkpoint, is_gpu_used, train_params, steps, log, trained>>
    /\ UNCHANGED <<cross_args, learning_rate, num_steps, run>>
    /\ UNCHANGED <<genVars, fileVars>>

\* train has returned: the next dataset, or the end of the loop.
CrossTrainReturn ==
    /\ cross_pc = "training"
    /\ train_pc = "done"
    /\ train_pc' = "idle"
    /\ run' = run + 1
    /\ cross_pc' = IF run + 1 < Len(cross_args.inputs) THEN "loop" ELSE "done"
    /\ UNCHANGED <<env, checkpoint, train_args, is_gpu_used, train_params, steps, log,
                   trained>>
    /\ UNCHANGED <<cross_args, learning_rate, num_steps>>
    /\ UNCHANGED <<genVars, fileVars>>

\* A call of train, or a call of cross_train, on a fresh object.
TrainInit ==
    /\ IdleGenerate /\ IdleFile
    /\ config = DefaultConfig
    /\ is_gpu_used = FALSE
    /\ train_params = NoParams
    /\ steps = 0
    /\ log = << >>
    /\ trained = << >>
    /\ learning_rate = << >>
    /\ num_steps = << >>
    /\ run = 0
    /\ \/ /\ \E c \in TrainCalls : env = c[1] /\ checkpoint = c[2] /\ train_args = c[3]
          /\ train_pc = "start"
          /\ cross_args = DefaultCrossArgs
          /\ cross_pc = "idle"
       \/ /\ \E c \in CrossCalls : checkpoint = c[1] /\ cross_args = c[2]
          /\ env = DefaultEnv
          /\ cross_pc = "start"
          /\ train_args = DefaultTrainArgs
          /\ train_pc = "idle"

TrainNext ==
    \/ TrainConfigure \/ TrainerStep \/ TrainFinish
    \/ CrossResolve \/ CrossCallTrain \/ CrossTrainReturn

TrainSpec == TrainInit /\ [][TrainNext]_vars

\* ======================================================== generate_to_file
SampleDelim == "====================\n"

\* generate_to_file calls over n and batch_size, with and without a minimum
\* length, for non-schema texts.
SizeFileCalls ==
    {<<[DefaultFileArgs EXCEPT !.n = k, !.batch_size = b,
                               !.destination_path = Some("texts.txt"),
                               !.kwargs = [DefaultArgs EXCEPT !.min_length = ml]],
       DefaultConfig>> :
        k \in 0 .. MaxN, b \in 0 .. MaxN, ml \in {None, Some(1)}}

\* generate_to_file calls for one text over destination_path and seed, and
\* one with a prompt as long as the model's context.
SeedFileCalls ==
    {<<[DefaultFileArgs EXCEPT !.n = 1, !.destination_path = d, !.seed = sd,
                               !.kwargs = [DefaultArgs EXCEPT !.promptLen = p]],
       DefaultConfig>> :
        d \in {None, Some("texts.txt")}, sd \in {None, Some(0), GivenSeed},
        p \in {0, ModelMaxLength}}

\* generate_to_file calls in schema mode, of a single batch.
SchemaFileCalls ==
    {<<[DefaultFileArgs EXCEPT !.n = k, !.batch_size = k,
                               !.destination_path = Some("texts.txt"),
                               !.kwargs = [DefaultArgs EXCEPT !.schema = TRUE]],
       [DefaultConfig EXCEPT !.schema_tokens = Some(<<DelimQColon, DelimAColon>>),
                             !.schema_return = sr]>> :
        k \in 1 .. MaxN, sr \in {None, Some(<<DelimQ>>)}}

FileCalls == SizeFileCalls \cup SeedFileCalls \cup SchemaFileCalls

FileInit ==
    /\ IdleTrain /\ IdleCross /\ IdleGenerate
    /\ \E c \in FileCalls : file_args = c[1] /\ config = c[2]
    /\ file_pc = "start"
    /\ f = None
    /\ batch = 0

\* The seed is one that "if seed:" takes: the one given, or the 8-digit one
\* drawn when neither destination_path nor seed is given.
FileSeeded(a) ==
    IF a.destination_path = None /\ a.seed = None THEN TRUE ELSE Truthy(a.seed)

\* generate_to_file up to its loop.
FileOpen ==
    /\ file_pc = "start"
    /\ IF file_args.batch_size = 0
       THEN /\ file_pc' = "done"
            /\ outcome' = [kind |-> "raised", exc |-> "ZeroDivisionError"]
            /\ UNCHANGED <<rng, f>>
       ELSE IF file_args.n % file_args.batch_size # 0
       THEN /\ file_pc' = "done"
            /\ outcome' = [kind |-> "raised", exc |-> "AssertionError"]
            /\ UNCHANGED <<rng, f>>
       ELSE /\ file_pc' = "loop"
            /\ rng' = IF FileSeeded(file_args) THEN "seeded" ELSE rng
            /\ f' = Some(<< >>)
            /\ UNCHANGED outcome
    /\ UNCHANGED <<file_args, batch>>
    /\ UNCHANGED <<args, config, pc, input_len, max_length, calls, empties, outputs,
                   gen_texts>>
    /\ UNCHANGED <<trainVars, crossVars>>

\* "self.generate(n=batch_size, return_as_list=True, **kwargs)" is entered.
FileCallGenerate ==
    /\ file_pc = "loop"
    /\ batch < file_args.n \div file_args.batch_size
    /\ file_pc' = "generating"
    /\ args' = [file_args.kwargs EXCEPT !.n = file_args.batch_size,
                                        !.return_as_list = TRUE]
    /\ pc' = "start"
    /\ input_len' = 0
    /\ max_length' = 0
    /\ calls' = 0
    /\ empties' = 0
    /\ outputs' = << >>
    /\ gen_texts' = << >>
    /\ outcome' = NoOutcome
    /\ UNCHANGED <<config, rng>>
    /\ UNCHANGED <<file_args, f, batch>>
    /\ UNCHANGED <<trainVars, crossVars>>

\* The keys of the record of an output in the order of their first
\* insertion, which is the order a dict is iterated in.
RECURSIVE KeysFrom(_, _, _)
KeysFrom(indices, i, normalize_key) ==
    IF i > Len(indices) THEN << >>
    ELSE LET key == FieldKey(indices[i].tok, normalize_key)
             seen == {FieldKey(indices[j].tok, normalize_key) : j \in 1 .. i - 1}
         IN  (IF key \in seen THEN << >> ELSE <<key>>)
                \o KeysFrom(indices, i + 1, normalize_key)

\* What "for gen_text in gen_texts" goes through: the elements of a list,
\* the keys of a dict, the characters of a str.
Iterated(value, a, cfg, outs) ==
    IF ~a.schema \/ a.n > 1 THEN value
    ELSE IF value.kind = "dict"
    THEN KeysFrom(schema_token_indices(Val(cfg.schema_tokens), outs[1]), 1,
                  a.normalize_key)
    ELSE [i \in 1 .. Len(value.text) |-> <<value.text[i]>>]

\* "{}".format(gen_text): a str as it is, the repr of a dict
Formatted(item, a) ==
    IF ~a.schema \/ a.n = 1 THEN item
    ELSE IF item.kind = "str" THEN item.text
    ELSE [repr |-> item.dict]

\* f.write("{}\n{}".format(gen_text, sample_delim))
Entry(item, a) == <<Formatted(item, a), "\n", SampleDelim>>

\* generate has returned or raised: the inner loop over what it returned.
FileWrite ==
    /\ file_pc = "generating"
    /\ pc = "done"
    /\ pc' = "idle"
    /\ IF outcome.kind = "raised"
       THEN /\ file_pc' = "done"
            /\ UNCHANGED <<f, batch>>
       ELSE LET items == Iterated(outcome.value, args, config, outputs)
            IN  /\ f' = Some(Val(f) \o [i \in 1 .. Len(items) |-> Entry(items[i], args)])
                /\ batch' = batch + 1
                /\ file_pc' = "loop"
    /\ UNCHANGED file_args
    /\ UNCHANGED <<args, config, rng, input_len, max_length, calls, empties, outputs,
                   gen_texts, outcome>>
    /\ UNCHANGED <<trainVars, crossVars>>

\* After the loop: close and "if seed: reset_seed()".
FileClose ==
    /\ file_pc = "loop"
    /\ batch >= file_args.n \div file_args.batch_size
    /\ file_pc' = "done"
    /\ rng' = IF FileSeeded(file_args) THEN "fresh" ELSE rng
    /\ UNCHANGED <<file_args, f, batch>>
    /\ UNCHANGED <<args, config, pc, input_len, max_length, calls, empties, outputs,
                   gen_texts, outcome>>
    /\ UNCHANGED <<trainVars, crossVars>>

FileNext ==
    \/ FileOpen \/ FileCallGenerate \/ FileWrite \/ FileClose
    \/ Prepare \/ Sample \/ SchemaPostprocess \/ PlainPostprocess

FileSpec == FileInit /\ [][FileNext]_vars

\* =========================================================== properties
\* What the properties say about a schema record is stated from the
\* configured delimiters and the output, not from the sorted list.

\* The call ended in the schema branch with a record for every output.
SchemaDone == pc = "done" /\ args.schema /\ outcome.kind # "raised"

Configured == Val(config.schema_tokens)

\* Position of the first occurrence of the a-th configured delimiter, or -1.
PosOf(a, output) ==
    LET enc == Encode(Configured[a])
        at == {p \in 0 .. Len(output) - 1 :
                  /\ p + Len(enc) <= Len(output)
                  /\ \A k \in 1 .. Len(enc) : output[p + k] = enc[k]}
    IN  IF enc = << >> \/ at = {} THEN -1 ELSE CHOOSE p \in at : \A q \in at : p <= q

Found(a, output) == PosOf(a, output) # -1

KeyOf(a) == FieldKey(Configured[a], args.normalize_key)

\* Delimiter b comes after delimiter a when the pairs are put in ascending
\* order of position (pairs with equal positions keep the configured order).
After(a, b, output) ==
    \/ PosOf(a, output) < PosOf(b, output)
    \/ PosOf(a, output) = PosOf(b, output) /\ a < b

Followers(a, output) == {b \in 1 .. Len(Configured) : After(a, b, output)}

\* The pair that follows a's pair in that order.
Follower(a, output) ==
    CHOOSE b \in Followers(a, output) :
        \A c \in Followers(a, output) : c = b \/ After(b, c, output)

\* decode(output[start : next.start - 1]), or decode(output[start:]) for the last
ClaimedText(a, output) ==
    IF Followers(a, output) = {}
    THEN Decode(PySliceFrom(output, PosOf(a, output)), TRUE)
    ELSE Decode(PySlice(output, PosOf(a, output),
                        PosOf(Follower(a, output), output) - 1), TRUE)

\* The record has a field under this key / the value it has there.
HasField(rec, key) ==
    IF rec.kind = "dict" THEN key \in DOMAIN rec.dict
    ELSE rec.kind = "str" /\ key = Val(config.schema_return)[1]
FieldOf(rec, key) == IF rec.kind = "dict" THEN rec.dict[key] ELSE rec.text

\* A pair later in the order is stored under the same key as a's.
KeyTakenLater(a, output) ==
    \E b \in Followers(a, output) : KeyOf(b) = KeyOf(a)

\* C1 (as stated): in every schema record each found delimiter's field is the
\* decoded slice output[start : next.start - 1], next being the pair after it
\* in ascending order of position, and output[start:] for the last pair.
C1_AsStated ==
    SchemaDone =>
        \A i \in 1 .. Len(outputs) : \A a \in 1 .. Len(Configured) :
            Found(a, outputs[i]) =>
                /\ HasField(gen_texts[i], KeyOf(a))
                /\ FieldOf(gen_texts[i], KeyOf(a)) = ClaimedText(a, outputs[i])

\* C1 (amended): the same, for every found delimiter whose key is not also the
\* key of a pair later in the order (a later pair overwrites the field).
C1_FieldIsSliceToNext ==
    SchemaDone =>
        \A i \in 1 .. Len(outputs) : \A a \in 1 .. Len(Configured) :
            Found(a, outputs[i]) /\ ~KeyTakenLater(a, outputs[i]) =>
                /\ HasField(gen_texts[i], KeyOf(a))
                /\ FieldOf(gen_texts[i], KeyOf(a)) = ClaimedText(a, outputs[i])

\* C1 witness: the spec's scenario, output "Q", ":", "A:" with delimiters
\* "Q:" and "A:": Q is decode(output[0:1]) and A is decode(output[2:]).
C1_Witness ==
    /\ SchemaDone
    /\ args.normalize_key
    /\ Configured = <<DelimQColon, DelimAColon>>
    /\ outputs = <<<<1, 2, 3>>>>
    /\ gen_texts[1].kind = "dict"
    /\ gen_texts[1].dict[<<"Q">>] = <<"Q">>
    /\ gen_texts[1].dict[<<"A">>] = <<"A", ":">>

\* The configured delimiters that occur in the output, in configured order.
RECURSIVE FoundOnly(_, _)
FoundOnly(toks, output) ==
    IF toks = << >> THEN << >>
    ELSE (IF find_index_of_subset(output, Encode(Head(toks))) # -1
          THEN <<Head(toks)>> ELSE << >>) \o FoundOnly(Tail(toks), output)

\* A found delimiter is stored under the same key as a's.
KeyOfFound(a, output) ==
    \E b \in 1 .. Len(Configured) : b # a /\ Found(b, output) /\ KeyOf(b) = KeyOf(a)

\* C2 (as stated): a delimiter that does not occur in an output maps to the
\* empty string in that output's record, whatever the other delimiters do.
C2_AsStated ==
    SchemaDone =>
        \A i \in 1 .. Len(outputs) : \A a \in 1 .. Len(Configured) :
            ~Found(a, outputs[i]) /\ HasField(gen_texts[i], KeyOf(a)) =>
                FieldOf(gen_texts[i], KeyOf(a)) = << >>

\* C2 (amended): a delimiter that does not occur in an output, and whose key
\* is not the key of a delimiter that does occur, maps to the empty string;
\* with no allow-list the call raises nothing and has a field for it; and the
\* fields of the found delimiters are those of a configuration without the
\* not-found ones.
C2_NotFoundIsEmpty ==
    /\ pc = "done" /\ args.schema /\ config.schema_tokens # None
          /\ ~TruthyList(config.schema_return) => outcome.kind # "raised"
    /\ SchemaDone =>
        \A i \in 1 .. Len(outputs) : \A a \in 1 .. Len(Configured) :
            /\ ~Found(a, outputs[i]) /\ ~KeyOfFound(a, outputs[i]) =>
                  /\ ~TruthyList(config.schema_return) => HasField(gen_texts[i], KeyOf(a))
                  /\ HasField(gen_texts[i], KeyOf(a)) =>
                        FieldOf(gen_texts[i], KeyOf(a)) = << >>
            /\ Found(a, outputs[i]) /\ HasField(gen_texts[i], KeyOf(a)) =>
                  FieldOf(gen_texts[i], KeyOf(a)) =
                      gen_text_dict(FoundOnly(Configured, outputs[i]), outputs[i],
                                    args.normalize_key)[KeyOf(a)]

\* C2 witness: "Q:" and "A:" configured, the output holds "A:" but no "Q:";
\* the record has an empty Q and a non-empty A.
C2_Witness ==
    /\ SchemaDone
    /\ args.normalize_key
    /\ Configured = <<DelimQColon, DelimAColon>>
    /\ outputs = <<<<1, 3, 2>>>>
    /\ gen_texts[1].kind = "dict"
    /\ gen_texts[1].dict[<<"Q">>] = << >>
    /\ gen_texts[1].dict[<<"A">>] = <<"A", ":", ":">>

\* The call went through the schema branch with delimiters configured.
SchemaEnded == pc = "done" /\ args.schema /\ config.schema_tokens # None

AllKeys == {KeyOf(a) : a \in 1 .. Len(Configured)}
Listed == {Val(config.schema_return)[j] : j \in 1 .. Len(Val(config.schema_return))}

\* The value is a string: a sequence of characters.
IsText(v) == DOMAIN v = 1 .. Len(v)

\* The allow-list, if any, names configured fields only.
AllowListFits == TruthyList(config.schema_return) => Listed \subseteq AllKeys

\* C3 (as stated): with delimiters configured, every record produced holds
\* exactly the allow-listed fields, or every configured field when there is
\* no allow-list, and every value is a string.  (Stated for allow-lists that
\* name configured fields.)
C3_AsStated ==
    SchemaEnded /\ AllowListFits =>
        /\ outcome.kind # "raised"
        /\ \A i \in 1 .. Len(outputs) :
              LET want == IF TruthyList(config.schema_return) THEN Listed ELSE AllKeys
              IN  /\ \A k \in want :
                        HasField(gen_texts[i], k) /\ IsText(FieldOf(gen_texts[i], k))
                  /\ gen_texts[i].kind = "dict" => DOMAIN gen_texts[i].dict = want

\* C4 (as stated): an allow-list of one field makes each record that field's
\* string; a longer one leaves only allow-listed fields; the call raises
\* nothing in either case.  (Stated for allow-lists that name configured
\* fields.)
C4_AsStated ==
    SchemaEnded /\ TruthyList(config.schema_return) /\ AllowListFits =>
        /\ outcome.kind # "raised"
        /\ \A i \in 1 .. Len(outputs) :
              IF Len(Val(config.schema_return)) = 1
              THEN gen_texts[i].kind = "str"
              ELSE gen_texts[i].kind = "dict" /\ DOMAIN gen_texts[i].dict \subseteq Listed

\* ---------------------------------------------------- the non-schema path
PlainCall == ~args.schema

\* No text of the sampled batch is left after the clean-up.
EmptyAfterCleanup == CleanTexts(outputs, args) = << >>

Ended(kinds) == pc = "done" /\ outcome.kind \in kinds

\* C5: a non-schema call never returns or prints an empty batch; an empty
\* batch ends the attempt with nothing returned or printed and goes back to
\* the sampling call; so sampling calls = empty batches + 1 when the call
\* ends (and at every point of the loop the two counts differ as the loop
\* position says).  The counts are compared while they have not saturated.
C5_NeverEmptyBatch ==
    /\ [](PlainCall /\ Ended({"returned", "printed"}) =>
            /\ outcome.value # << >>
            /\ calls < MaxCalls => calls = empties + 1)
    /\ [](PlainCall /\ calls < MaxCalls =>
            /\ pc = "sampled" => calls = empties + 1
            /\ pc = "loop" => calls = empties)
    /\ [][PlainCall /\ pc = "sampled" /\ EmptyAfterCleanup =>
            pc' = "loop" /\ outcome' = NoOutcome /\ empties' = Bump(empties)]_vars

\* C5 witness: a call that ended on its second sampling call.
C5_Witness ==
    PlainCall /\ Ended({"returned", "printed"}) /\ calls = 2 /\ empties = 1

\* The texts the claim keeps: all but those shorter than a given minimum, or
\* all but the empty ones when no minimum is given.
RECURSIVE ClaimedKept(_, _)
ClaimedKept(texts, min_length) ==
    IF texts = << >> THEN << >>
    ELSE (IF (IF min_length # None THEN Len(Head(texts)) < Val(min_length)
              ELSE Len(Head(texts)) = 0)
          THEN << >> ELSE <<Head(texts)>>) \o ClaimedKept(Tail(texts), min_length)

\* The decoded batch as the filter receives it.
Unfiltered == CleanTexts(outputs, [args EXCEPT !.nonempty_output = FALSE])

\* C7 (as stated): with non-empty-output filtering on, what is left of the
\* decoded batch is every text but those shorter than min_length (or the
\* empty ones when no minimum is given), in the original order.
C7_AsStated ==
    PlainCall /\ args.nonempty_output /\ Ended({"returned", "printed"}) =>
        gen_texts = ClaimedKept(Unfiltered, args.min_length)

\* The prompt is non-empty and as long as the context, or longer.
PromptMeetsLimit == args.promptLen > 0 /\ args.promptLen >= ModelMaxLength

\* C8: such a prompt makes the call raise before any sampling call and
\* before the seed is applied; the loop is never entered.
C8_PromptAbortsFirst ==
    PromptMeetsLimit =>
        /\ pc \in {"start", "done"}
        /\ calls = 0
        /\ rng = "fresh"
        /\ pc = "done" => outcome = [kind |-> "raised", exc |-> "AssertionError"]

\* C8 witness: a seeded call with a prompt exactly as long as the context
\* has raised.
C8_Witness ==
    /\ args.promptLen = ModelMaxLength
    /\ Truthy(args.seed)
    /\ Ended({"raised"})

\* C9 (as stated): schema mode without configured delimiters fails before
\* any sampling call and before any seed is applied.
C9_AsStated ==
    args.schema /\ config.schema_tokens = None /\ pc = "done" =>
        outcome.kind = "raised" /\ calls = 0 /\ rng = "fresh"

\* C10 (as stated): a supplied seed is in effect at the sampling call and is
\* reset before the call ends, however it ends.  (Stated for non-zero seeds.)
C10_AsStated ==
    Truthy(args.seed) =>
        /\ pc = "sampled" => rng = "seeded"
        /\ pc = "done" => rng = "fresh"

\* The model samples a batch of which some text survives the clean-up.
SampleSurvivor == Sample /\ CleanTexts(outputs', args) # << >>

\* A non-schema call keeps running while it can, and the model, asked again
\* and again, eventually samples a batch that survives the clean-up.
\* Checked over the clean-up options of the non-schema calls and over the
\* seeded schema calls.
LiveInit ==
    Init /\ <<args, config>> \in PlainCalls \cup PlainBatchCalls \cup SeededSchemaCalls
LiveSpec ==
    /\ LiveInit /\ [][Next]_vars
    /\ WF_vars(Prepare) /\ WF_vars(Sample) /\ WF_vars(PlainPostprocess)
    /\ SF_vars(SampleSurvivor)

\* Some batch the model can return for this call survives the clean-up.
CanSurvive == \E b \in Batches(args) : CleanTexts(b, args) # << >>

\* C6: under that assumption a non-schema call ends; it ends on the first
\* batch of which a text survives, and on no other: an empty batch always
\* leads back to the sampling call, however many were made, so a call of
\* which no batch can survive never ends.
C6_RetryUntilNonEmpty ==
    /\ PlainCall /\ CanSurvive => <>(pc = "done")
    /\ [](PlainCall /\ ~PromptMeetsLimit /\ ~CanSurvive => pc # "done")
    /\ [][PlainCall /\ pc = "sampled" =>
            IF EmptyAfterCleanup THEN pc' = "loop" /\ outcome' = NoOutcome
            ELSE pc' = "done" /\ outcome'.kind \in {"returned", "printed"}]_vars

\* C6 witness: a call that ended after the counter of sampling calls
\* saturated, i.e. after at least MaxCalls - 1 retries.
C6_Witness ==
    PlainCall /\ Ended({"returned", "printed"}) /\ calls = MaxCalls /\ empties = MaxCalls - 1

\* ------------------------------------------------- spans and input length
\* The sorted pairs and the span sliced for the pair at place i, for the
\* i-th output of the batch.
IndicesOf(output) == schema_token_indices(Configured, output)

\* The span is the run of Len(span) tokens of output that starts at start.
StartsAt(span, output, start) ==
    /\ start + Len(span) <= Len(output)
    /\ span = SubSeq(output, start + 1, start + Len(span))

\* C16 (as stated): in a schema record the span of a found delimiter that has
\* a follower in position order is a contiguous range of the output inside
\* [start, next.start): it begins at start and holds no token at or beyond
\* the follower's position, also for equal positions and for a follower at
\* position 0 or 1.
C16_AsStated ==
    SchemaDone =>
        \A o \in 1 .. Len(outputs) :
            LET indices == IndicesOf(outputs[o])
            IN  \A i \in 1 .. Len(indices) - 1 :
                    indices[i].pos # -1 =>
                        LET span == FieldSpan(indices, i, outputs[o])
                        IN  /\ StartsAt(span, outputs[o], indices[i].pos)
                            /\ indices[i].pos + Len(span) <= indices[i + 1].pos

\* C17 (as stated): at every sampling call the input handed to the model is
\* strictly shorter than the model's context, with or without a prepended
\* beginning-of-sequence token, and max_length does not exceed the context.
C17_AsStated ==
    pc = "sampled" =>
        /\ input_len < ModelMaxLength
        /\ max_length <= ModelMaxLength

\* ------------------------------------------------------------ cross_train
CrossCall == cross_pc # "idle"
DirectTrain == cross_pc = "idle" /\ train_pc # "idle"
NumDatasets == Len(cross_args.inputs)
Saves == SelectSeq(log, LAMBDA e : e.ev = "save")
OverwriteWarnings == SelectSeq(log, LAMBDA e : e = Warning("overwrite"))

\* The rate is lr0 / 2^i and the budget floor(steps0 / 2^i), for the run
\* counted i from 0.
IsHalvedRate(rate, lr0, i) == rate.num * Pow2(i) * lr0.den = lr0.num * rate.den
IsHalvedBudget(budget, steps0, i) ==
    budget * Pow2(i) <= steps0 /\ steps0 < (budget + 1) * Pow2(i)

\* C11: cross_train calls train once per dataset, in the order given; a
\* single learning rate gives run i the rate lr0 / 2^i and a single budget
\* gives it floor(steps0 / 2^i) steps; a list gives run i its i-th entry as
\* it is; each of the two is resolved without regard to the other; and
\* 1e-4 over three datasets gives 1e-4, 5e-5, 2.5e-5.
C11_CrossTrainSchedule ==
    CrossCall /\ outcome.kind # "raised" =>
        LET lr == cross_args.learning_rate
            ns == cross_args.num_steps
        IN  /\ Len(trained) <= NumDatasets
            /\ cross_pc = "done" => Len(trained) = NumDatasets /\ train_pc = "idle"
            /\ \A i \in 1 .. Len(trained) :
                /\ trained[i].train_data = cross_args.inputs[i]
                /\ IF lr.isList THEN trained[i].learning_rate = lr.items[i]
                   ELSE IsHalvedRate(trained[i].learning_rate, lr.value, i - 1)
                /\ IF ns.isList THEN trained[i].num_steps = ns.items[i]
                   ELSE IsHalvedBudget(trained[i].num_steps, ns.value, i - 1)
            /\ cross_pc = "done" /\ lr = Scalar(Rat(1, 10000)) /\ NumDatasets = 3 =>
                /\ RatEq(trained[1].learning_rate, Rat(1, 10000))
                /\ RatEq(trained[2].learning_rate, Rat(5, 100000))
                /\ RatEq(trained[3].learning_rate, Rat(25, 1000000))

\* Three datasets trained on, from a single rate and a single budget.
C11_Witness ==
    /\ cross_pc = "done"
    /\ NumDatasets = 3
    /\ cross_args.learning_rate = Scalar(Rat(1, 10000))
    /\ cross_args.num_steps = Scalar(MaxSteps)
    /\ Len(trained) = 3
    /\ trained[3].num_steps < trained[1].num_steps

\* A list was given whose length is not the number of datasets.
Mismatched ==
    \/ cross_args.learning_rate.isList
        /\ Len(cross_args.learning_rate.items) # NumDatasets
    \/ cross_args.num_steps.isList
        /\ Len(cross_args.num_steps.items) # NumDatasets

\* C12: with a learning-rate list or a step-budget list of another length
\* than the datasets cross_train raises, and it does so before any run:
\* train is never called and nothing is saved.
C12_MismatchFailsFirst ==
    CrossCall /\ Mismatched =>
        /\ trained = << >>
        /\ train_pc = "idle"
        /\ Saves = << >>
        /\ cross_pc # "start" =>
            cross_pc = "done" /\ outcome = [kind |-> "raised", exc |-> "AssertionError"]

\* cross_train has raised over a budget list longer than the datasets.
C12_Witness ==
    /\ cross_pc = "done"
    /\ NumDatasets = 2
    /\ ~cross_args.learning_rate.isList
    /\ cross_args.num_steps.isList
    /\ Len(cross_args.num_steps.items) = 3
    /\ outcome.kind = "raised"

\* ------------------------------------------------------------------ train
\* train has handed its configuration to the trainer.
Configured_Train == DirectTrain /\ train_pc \in {"fit", "done"}

\* The units the trainer runs on: all the installed ones for gpus = -1.
UnitsUsed == IF train_params.gpus = -1 THEN env.units ELSE train_params.gpus

\* C13 (as stated), for runs without TPU cores: the trainer gets units
\* exactly when a unit is installed and n_gpu is not 0, and gets 0 units
\* otherwise; a run on several units, the default request for all of them
\* included, asks for the distributed strategy; on Windows the unit count
\* is forced to 1 with a warning and the run goes on.
C13_AsStated ==
    Configured_Train /\ train_args.tpu_cores = 0 =>
        /\ train_params.gpus # 0 <=> (env.units > 0 /\ train_args.n_gpu # 0)
        /\ is_gpu_used <=> (env.units > 0 /\ train_args.n_gpu # 0)
        /\ UnitsUsed > 1 => train_params.distributed_backend = Some("ddp")
        /\ env.windows /\ is_gpu_used /\ train_args.n_gpu # 1 =>
            /\ train_params.gpus = 1
            /\ \E i \in 1 .. Len(log) : log[i] = Warning("windows")

\* A finished train call whose budget is one save period, begun with no
\* checkpoint in output_dir.
PeriodDone ==
    /\ DirectTrain /\ train_pc = "done"
    /\ train_args.save_every > 0
    /\ train_args.num_steps = train_args.save_every
    /\ ~trained[1].found_checkpoint

\* No more overwrite warnings than runs that found a checkpoint.
WarnedOnlyOverCheckpoint ==
    Len(OverwriteWarnings)
        <= Cardinality({i \in 1 .. Len(trained) : trained[i].found_checkpoint})

\* C14 (as stated): a run of num_steps = save_every steps (1000 and 1000)
\* begun without a checkpoint saves the model exactly once in the whole
\* train call, at the last step, and warns of no overwrite; the overwrite
\* warning comes only in a run that found a checkpoint.
C14_AsStated ==
    /\ PeriodDone =>
        /\ Len(Saves) = 1
        /\ Saves[1].step = train_args.num_steps
        /\ OverwriteWarnings = << >>
    /\ WarnedOnlyOverCheckpoint

\* C14 (amended): in such a run the callback saves once, at the last step,
\* and train saves once more after the trainer has returned, two saves in
\* all, with no overwrite warning; the overwrite warning comes only in a
\* run that found a checkpoint.
C14_PeriodicThenFinalSave ==
    /\ PeriodDone =>
        /\ Saves = <<Save("callback", train_args.num_steps),
                     Save("train", train_args.num_steps)>>
        /\ OverwriteWarnings = << >>
    /\ WarnedOnlyOverCheckpoint

\* The run of 1000 steps with a save every 1000 has ended.
C14_Witness ==
    /\ PeriodDone
    /\ train_args.num_steps = DefaultSaveEvery
    /\ steps = DefaultSaveEvery

\* ------------------------------------------------------- generate_to_file
FileCall == file_pc # "idle"
Divisible ==
    file_args.batch_size # 0 /\ file_args.n % file_args.batch_size = 0

\* A generated text as a file entry shows it: a text as it is, a schema
\* record as its printed form.
TextOf(item) ==
    IF ~args.schema THEN item
    ELSE IF item.kind = "str" THEN item.text
    ELSE [repr |-> item.dict]

\* C15 (as stated): with n divisible by batch_size a generate_to_file call
\* that returns has written exactly n entries, each a generated text (those
\* of the last batch are the texts generate made last) followed by the
\* sample delimiter, whatever the batch size and the generate options; with
\* n not divisible it raises with no file opened and no text generated.
C15_AsStated ==
    FileCall =>
        /\ Divisible /\ file_pc = "done" /\ outcome.kind # "raised" =>
            /\ f # None
            /\ Len(Val(f)) = file_args.n
            /\ \A i \in 1 .. Len(Val(f)) : SubSeq(Val(f)[i], 2, 3) = <<"\n", SampleDelim>>
            /\ file_args.n > 0 =>
                /\ Len(gen_texts) = file_args.batch_size
                /\ \A j \in 1 .. file_args.batch_size :
                    Val(f)[file_args.n - file_args.batch_size + j][1] = TextOf(gen_texts[j])
        /\ ~Divisible =>
            /\ f = None
            /\ pc = "idle" /\ calls = 0
            /\ file_pc = "done" => outcome.kind = "raised"

====
